---- MODULE Spec2Model ----
(***************************************************************************)
(* KeyedDB (src/src/KeyedDB.ts): an array of values kept sorted by key and *)
(* a dictionary from identity to value, both fed by a binary search.       *)
(*                                                                         *)
(* Values are JavaScript objects: the array and the dictionary hold        *)
(* references, `heap` gives each live object its fields.  A value is the   *)
(* record [k, id]: k is what key.key(v) returns, id the field a            *)
(* caller-supplied idGetter reads.  idGetter says which identity function  *)
(* the constructor was given.  Array indices are 0-based as in the source; *)
(* the TLA+ sequence element of index i is array[i+1].                     *)
(*                                                                         *)
(* Spec has the calls that change the collection.  PageSpec adds the       *)
(* callers that read it: walk pages through it with paginated, iter runs   *)
(* its iterator.  DerivedSpec adds filter and slice: derived is the        *)
(* collection they return, which shares the heap.  SearchSpec calls        *)
(* binarySearch on its own: search is that call, taken in one step or      *)
(* followed round by round; SearchFair lets a started call run on.         *)
(***************************************************************************)
EXTENDS Integers, Sequences, FiniteSets, TLC

VARIABLES array, dict, heap, idGetter, last, data, walk, iter, derived, search

vars ==
    <<array, dict, heap, idGetter, last, data, walk, iter, derived, search>>

\* ------------------------------------------------------------------ bounds
MaxKey == 3
MaxId == 2
MaxArgs == 2

Keys == 1..MaxKey
\* The identities a caller-supplied idGetter returns, and those of the
\* default one: the key's toString().
CustomIds == {"id" \o ToString(i) : i \in 1..MaxId}
KeyIds == {ToString(k) : k \in Keys}
AllIds == CustomIds \cup KeyIds
\* Live objects: at most one per key in the array of a collection and of
\* the collection made from it, one per identity in the dictionary, and the
\* one a call is creating.
Refs == 1..(2 * MaxKey + MaxId + 1)

\* ------------------------------------------------------------------ values
\* The falsy value (null, undefined): what `!value` tests.
NULL == [k |-> 0, id |-> ""]
\* "No object": an absent dictionary entry, a free heap cell.
NoRef == 0

\* The values a caller makes: with the default idGetter no id field is read.
Values ==
    IF idGetter = "default" THEN [k : Keys, id : {""}]
    ELSE [k : Keys, id : CustomIds]
Ids == IF idGetter = "default" THEN KeyIds ELSE CustomIds
Inputs == Values \cup {NULL}
ArgLists == UNION {[1..n -> Inputs] : n \in 1..MaxArgs}

\* The messages of the errors the source throws.
NoError == "none"
InvalidValue == "falsey value"
DuplicateIdentity == "duplicate ID being inserted"
DuplicateKey == "duplicate key"
NotFound == "Value not found"

\* key.key and key.compare (the tests' phoneCallKey: a number, a - b).
Key(v) == v.k
Compare(a, b) == a - b
\* this.idGetter = id || (v => this.key.key(v).toString()).
IdGetter(v) == IF idGetter = "default" THEN ToString(Key(v)) ELSE v.id

\* ------------------------------------------------------------ binary search
\* binarySearch(array, predicate), on the sequence of the predicate's values.
RECURSIVE bsLoop(_, _, _)
bsLoop(p, low, high) ==
    IF low = high THEN low
    ELSE LET mid == low + ((high - low) \div 2)
             pred == p[mid + 1]
         IN  IF pred < 0 THEN bsLoop(p, low, mid)
             ELSE IF pred > 0 THEN bsLoop(p, mid + 1, high)
             ELSE mid

\* A step of the loop that moves the lower bound to mid, not past it.
bsStepKeepsMid(p, low, high) ==
    LET mid == low + ((high - low) \div 2)
        pred == p[mid + 1]
    IN  IF pred < 0 THEN [done |-> FALSE, result |-> 0, low |-> low, high |-> mid]
        ELSE IF pred > 0
             THEN [done |-> FALSE, result |-> 0, low |-> mid, high |-> high]
        ELSE [done |-> TRUE, result |-> mid, low |-> low, high |-> high]

\* One step of the narrowing loop between the bounds low < high.
bsStep(p, low, high) ==
    LET mid == low + ((high - low) \div 2)
        pred == p[mid + 1]
    IN  IF pred < 0 THEN [done |-> FALSE, result |-> 0, low |-> low, high |-> mid]
        ELSE IF pred > 0
             THEN [done |-> FALSE, result |-> 0, low |-> mid + 1, high |-> high]
        ELSE [done |-> TRUE, result |-> mid, low |-> low, high |-> high]

\* The edge handling before the loop: the answer, or the loop is needed.
bsEdge(p) ==
    LET n == Len(p)
    IN  IF n = 0 THEN [done |-> TRUE, result |-> 0]
        ELSE IF p[1] < 0 THEN [done |-> TRUE, result |-> -1]
        ELSE IF p[1] = 0 THEN [done |-> TRUE, result |-> 0]
        ELSE IF p[n] > 0 THEN [done |-> TRUE, result |-> n]
        ELSE IF p[n] = 0 THEN [done |-> TRUE, result |-> n - 1]
        ELSE [done |-> FALSE, result |-> 0]

\* A search that answers 0 for a target that precedes every element.
binarySearchClamped(p) ==
    LET n == Len(p)
    IN  IF n = 0 THEN 0
        ELSE IF p[1] <= 0 THEN 0
        ELSE IF p[n] > 0 THEN n
        ELSE IF p[n] = 0 THEN n - 1
        ELSE bsLoop(p, 0, n)

binarySearch(p) ==
    LET n == Len(p)
    IN  IF n = 0 THEN 0
        ELSE IF p[1] < 0 THEN -1
        ELSE IF p[1] = 0 THEN 0
        ELSE IF p[n] > 0 THEN n
        ELSE IF p[n] = 0 THEN n - 1
        ELSE bsLoop(p, 0, n)

\* ------------------------------------------------------------------- state
\* A collection state st is [array, dict, heap].
St(a, d, h) == [array |-> a, dict |-> d, heap |-> h]

\* this.array[i] as a value (undefined is NULL).
At(st, i) ==
    IF i >= 0 /\ i < Len(st.array) THEN st.heap[st.array[i + 1]] ELSE NULL

\* get(id): the reference stored under id, NoRef for undefined.
get(st, id) == st.dict[id]

firstIndex(st, value) ==
    LET valueKey == Key(value)
    IN  binarySearch([i \in 1..Len(st.array) |->
                         Compare(valueKey, Key(st.heap[st.array[i]]))])

\* Array.prototype.splice(index, 0, r) and splice(index, 1).
SpliceIn(a, index, r) ==
    SubSeq(a, 1, index) \o <<r>> \o SubSeq(a, index + 1, Len(a))
SpliceOut(a, index) ==
    SubSeq(a, 1, index) \o SubSeq(a, index + 2, Len(a))

\* The object a caller creates for a new value: the first free cell.
NewRef(st) ==
    CHOOSE r \in Refs : st.heap[r] = NULL /\
        \A q \in Refs : st.heap[q] = NULL => r <= q

\* Garbage collection, compacting: an object no collection holds is gone,
\* and the live ones are renumbered in the order the collections reach them
\* (the array first, then the dictionary by identity; then the collection
\* filter or slice has made, which shares its objects).  Which cell an
\* object sits in is not observable; which objects are the same one is, and
\* is kept.
StaleIds(st) ==
    {id \in AllIds : st.dict[id] # NoRef /\
        \A i \in 1..Len(st.array) : st.array[i] # st.dict[id]}

RECURSIVE StaleSeq(_, _)
StaleSeq(st, ids) ==
    IF ids = {} THEN <<>>
    ELSE LET m == CHOOSE x \in ids : TRUE
         IN  <<st.dict[m]>> \o StaleSeq(st, ids \ {m})

Reach(c) == c.array \o StaleSeq(c, StaleIds(c))

RECURSIVE Dedupe(_)
Dedupe(s) ==
    IF s = <<>> THEN <<>>
    ELSE LET t == Dedupe(SubSeq(s, 1, Len(s) - 1))
             x == s[Len(s)]
         IN  IF \E i \in 1..Len(t) : t[i] = x THEN t ELSE Append(t, x)

CollectPair(st, other) ==
    LET o == Dedupe(Reach(st) \o Reach(other))
        moved(r) == IF r = NoRef THEN NoRef
                    ELSE CHOOSE i \in 1..Len(o) : o[i] = r
    IN  [array |-> [i \in 1..Len(st.array) |-> moved(st.array[i])],
         dict |-> [id \in AllIds |-> moved(st.dict[id])],
         heap |-> [r \in Refs |->
                     IF r <= Len(o) THEN st.heap[o[r]] ELSE NULL],
         other |-> [other EXCEPT
                       !.array = [i \in 1..Len(other.array) |->
                                     moved(other.array[i])],
                       !.dict = [id \in AllIds |-> moved(other.dict[id])]]]

Collect(st) == CollectPair(st, derived)

\* The object a failed call leaves behind is gone at once: its cell is free
\* for the next value of the same call.
RefsOf(c) ==
    {c.array[i] : i \in 1..Len(c.array)} \cup {c.dict[id] : id \in AllIds}
Release(st) ==
    [st EXCEPT !.heap = [r \in Refs |->
        IF r \in RefsOf(st) \cup RefsOf(derived) THEN st.heap[r] ELSE NULL]]

\* _insertSingle without the test for an equal key at the found index.
insertSingleNoKeyTest(st, r) ==
    IF r = NoRef THEN [st |-> st, err |-> InvalidValue]
    ELSE
    LET value == st.heap[r]
        valueID == IdGetter(value)
        n == Len(st.array)
        index == firstIndex(st, value)
        stored(a) == [st |-> [st EXCEPT !.array = a, !.dict[valueID] = r],
                      err |-> NoError]
    IN  IF get(st, valueID) # NoRef
        THEN [st |-> st, err |-> DuplicateIdentity]
        ELSE IF n > 0
        THEN IF index >= n THEN stored(Append(st.array, r))
             ELSE IF index < 0 THEN stored(<<r>> \o st.array)
             ELSE stored(SpliceIn(st.array, index, r))
        ELSE stored(Append(st.array, r))

\* _insertSingle with push where the source has unshift.
insertSinglePush(st, r) ==
    IF r = NoRef THEN [st |-> st, err |-> InvalidValue]
    ELSE
    LET value == st.heap[r]
        valueID == IdGetter(value)
        n == Len(st.array)
        index == firstIndex(st, value)
        stored(a) == [st |-> [st EXCEPT !.array = a, !.dict[valueID] = r],
                      err |-> NoError]
    IN  IF get(st, valueID) # NoRef
        THEN [st |-> st, err |-> DuplicateIdentity]
        ELSE IF n > 0
        THEN IF index >= n THEN stored(Append(st.array, r))
             ELSE IF index < 0 THEN stored(Append(st.array, r))
             ELSE IF Key(value) # Key(At(st, index))
             THEN stored(SpliceIn(st.array, index, r))
             ELSE [st |-> st, err |-> DuplicateKey]
        ELSE stored(Append(st.array, r))

\* _insertSingle with the key looked up before the identity.
insertSingleKeyFirst(st, r) ==
    IF r = NoRef THEN [st |-> st, err |-> InvalidValue]
    ELSE
    LET value == st.heap[r]
        valueID == IdGetter(value)
        n == Len(st.array)
        index == firstIndex(st, value)
        stored(a) == [st |-> [st EXCEPT !.array = a, !.dict[valueID] = r],
                      err |-> NoError]
    IN  IF index >= 0 /\ index < n /\ Key(value) = Key(At(st, index))
        THEN [st |-> st, err |-> DuplicateKey]
        ELSE IF get(st, valueID) # NoRef
        THEN [st |-> st, err |-> DuplicateIdentity]
        ELSE IF n > 0
        THEN IF index >= n THEN stored(Append(st.array, r))
             ELSE IF index < 0 THEN stored(<<r>> \o st.array)
             ELSE stored(SpliceIn(st.array, index, r))
        ELSE stored(Append(st.array, r))

\* _insertSingle without the test of the identity.
insertSingleNoIdTest(st, r) ==
    IF r = NoRef THEN [st |-> st, err |-> InvalidValue]
    ELSE
    LET value == st.heap[r]
        valueID == IdGetter(value)
        n == Len(st.array)
        index == firstIndex(st, value)
        stored(a) == [st |-> [st EXCEPT !.array = a, !.dict[valueID] = r],
                      err |-> NoError]
    IN  IF n > 0
        THEN IF index >= n THEN stored(Append(st.array, r))
             ELSE IF index < 0 THEN stored(<<r>> \o st.array)
             ELSE IF Key(value) # Key(At(st, index))
             THEN stored(SpliceIn(st.array, index, r))
             ELSE [st |-> st, err |-> DuplicateKey]
        ELSE stored(Append(st.array, r))

\* _insertSingle(value), value being the object r (NoRef for a falsy value).
insertSingle(st, r) ==
    IF r = NoRef THEN [st |-> st, err |-> InvalidValue]
    ELSE
    LET value == st.heap[r]
        valueID == IdGetter(value)
        n == Len(st.array)
        index == firstIndex(st, value)
        stored(a) == [st |-> [st EXCEPT !.array = a, !.dict[valueID] = r],
                      err |-> NoError]
    IN  IF get(st, valueID) # NoRef
        THEN [st |-> st, err |-> DuplicateIdentity]
        ELSE IF n > 0
        THEN IF index >= n THEN stored(Append(st.array, r))
             ELSE IF index < 0 THEN stored(<<r>> \o st.array)
             ELSE IF Key(value) # Key(At(st, index))
             THEN stored(SpliceIn(st.array, index, r))
             ELSE [st |-> st, err |-> DuplicateKey]
        ELSE stored(Append(st.array, r))

\* _insertSingle of a value the caller has just created.
insertValue(st, v) ==
    IF v = NULL THEN insertSingle(st, NoRef)
    ELSE LET r == NewRef(st)
             out == insertSingle([st EXCEPT !.heap[r] = v], r)
         IN  [st |-> Release(out.st), err |-> out.err]

\* insert going on to the next value after a throw.
RECURSIVE insertFromOn(_, _, _)
insertFromOn(st, values, i) ==
    IF i > Len(values) THEN [st |-> st, err |-> NoError]
    ELSE LET out == insertValue(st, values[i])
             rest == insertFromOn(out.st, values, i + 1)
         IN  IF out.err # NoError THEN [st |-> rest.st, err |-> out.err]
             ELSE rest

\* insert(...values): values.forEach(v => this._insertSingle(v)).
RECURSIVE insertFrom(_, _, _)
insertFrom(st, values, i) ==
    IF i > Len(values) THEN [st |-> st, err |-> NoError]
    ELSE LET out == insertValue(st, values[i])
         IN  IF out.err # NoError THEN out
             ELSE insertFrom(out.st, values, i + 1)

insert(st, values) == insertFrom(st, values, 1)

\* delete leaving the dictionary alone.
deleteKeepEntry(st, value) ==
    LET index == firstIndex(st, value)
    IN  IF index < 0 \/ index >= Len(st.array)
           \/ Key(value) # Key(At(st, index))
        THEN [st |-> st, res |-> NULL, err |-> NoError]
        ELSE [st |-> [st EXCEPT !.array = SpliceOut(@, index)],
              res |-> At(st, index), err |-> NoError]

\* delete without the comparison of the keys at the found index.
deleteAtIndex(st, value) ==
    LET index == firstIndex(st, value)
    IN  IF index < 0 \/ index >= Len(st.array)
        THEN [st |-> st, res |-> NULL, err |-> NoError]
        ELSE [st |-> [st EXCEPT !.dict[IdGetter(value)] = NoRef,
                                !.array = SpliceOut(@, index)],
              res |-> At(st, index), err |-> NoError]

\* delete(value): the value is only read through key.key and idGetter.
delete(st, value) ==
    LET index == firstIndex(st, value)
    IN  IF index < 0 \/ index >= Len(st.array)
           \/ Key(value) # Key(At(st, index))
        THEN [st |-> st, res |-> NULL, err |-> NoError]
        ELSE [st |-> [st EXCEPT !.dict[IdGetter(value)] = NoRef,
                                !.array = SpliceOut(@, index)],
              res |-> At(st, index), err |-> NoError]

\* A parameter with a default: deleteById(id, assertPresent: boolean = true).
Flags == {"omitted", "true", "false"}
OrTrue(flag) == flag # "false"

\* deleteById that never throws.
deleteByIdQuiet(st, id, assertPresent) ==
    LET value == get(st, id)
    IN  IF value = NoRef
        THEN [st |-> st, res |-> NULL, err |-> NoError]
        ELSE delete(st, st.heap[value])

\* deleteById(id, assertPresent).
deleteById(st, id, assertPresent) ==
    LET value == get(st, id)
    IN  IF value = NoRef
        THEN IF assertPresent
             THEN [st |-> st, res |-> NULL, err |-> NotFound]
             ELSE [st |-> st, res |-> NULL, err |-> NoError]
        ELSE delete(st, st.heap[value])

\* upsert(...values); a throw of _insertSingle leaves forEach and the call.
RECURSIVE upsertFrom(_, _, _, _)
upsertFrom(st, values, i, updates) ==
    IF i > Len(values) THEN [st |-> st, res |-> updates, err |-> NoError]
    ELSE LET v == values[i]
             deleted == deleteById(st, IdGetter(v), FALSE)
             out == insertValue(deleted.st, v)
         IN  IF v = NULL THEN upsertFrom(st, values, i + 1, updates)
             ELSE IF out.err # NoError
             THEN [st |-> out.st, res |-> <<>>, err |-> out.err]
             ELSE upsertFrom(out.st, values, i + 1,
                             IF deleted.res # NULL THEN Append(updates, v)
                             ELSE updates)

upsert(st, values) == upsertFrom(st, values, 1, <<>>)

\* insertIfAbsent without the look-up of the key.
RECURSIVE insertIfAbsentById(_, _, _, _)
insertIfAbsentById(st, values, i, insertions) ==
    IF i > Len(values) THEN [st |-> st, res |-> insertions, err |-> NoError]
    ELSE LET v == values[i]
             presentValue == get(st, IdGetter(v))
             out == insert(st, <<v>>)
         IN  IF v = NULL THEN insertIfAbsentById(st, values, i + 1, insertions)
             ELSE IF presentValue # NoRef
             THEN insertIfAbsentById(st, values, i + 1, insertions)
             ELSE IF out.err # NoError
             THEN [st |-> out.st, res |-> <<>>, err |-> out.err]
             ELSE insertIfAbsentById(out.st, values, i + 1,
                                     Append(insertions, v))

\* insertIfAbsent(...values).
RECURSIVE insertIfAbsentFrom(_, _, _, _)
insertIfAbsentFrom(st, values, i, insertions) ==
    IF i > Len(values) THEN [st |-> st, res |-> insertions, err |-> NoError]
    ELSE LET v == values[i]
             presentValue == get(st, IdGetter(v))
             presentKey == firstIndex(st, v)
             out == insert(st, <<v>>)
         IN  IF v = NULL THEN insertIfAbsentFrom(st, values, i + 1, insertions)
             ELSE IF presentValue # NoRef
             THEN insertIfAbsentFrom(st, values, i + 1, insertions)
             ELSE IF At(st, presentKey) # NULL
                     /\ Key(At(st, presentKey)) = Key(v)
             THEN insertIfAbsentFrom(st, values, i + 1, insertions)
             ELSE IF out.err # NoError
             THEN [st |-> out.st, res |-> <<>>, err |-> out.err]
             ELSE insertIfAbsentFrom(out.st, values, i + 1,
                                     Append(insertions, v))

insertIfAbsent(st, values) == insertIfAbsentFrom(st, values, 1, <<>>)

\* clear().
clear(st) == [st EXCEPT !.array = <<>>, !.dict = [id \in AllIds |-> NoRef]]

\* update that leaves the value where it is when its key changes.
updateInPlace(st, id, newKeyArg) ==
    LET value == get(st, id)
    IN  IF value = NoRef
        THEN [st |-> st, ret |-> 0, err |-> NoError, called |-> FALSE]
        ELSE [st |-> [st EXCEPT !.heap[value].k = newKeyArg],
              ret |-> IF newKeyArg # Key(st.heap[value]) THEN 2 ELSE 1,
              err |-> NoError, called |-> TRUE]

\* update that takes the value out and inserts it again whatever its key.
updateAlwaysMoves(st, id, newKeyArg) ==
    LET value == get(st, id)
        miss == [st |-> st, ret |-> 0, err |-> NoError, called |-> FALSE]
    IN  IF value = NoRef THEN miss
        ELSE
        LET idx == firstIndex(st, st.heap[value])
        IN  IF idx >= 0 /\ idx < Len(st.array)
               /\ IdGetter(At(st, idx)) = id
            THEN LET st1 == [st EXCEPT !.heap[value].k = newKeyArg]
                     st2 == [st1 EXCEPT !.dict[id] = NoRef,
                                        !.array = SpliceOut(@, idx)]
                     out == insertSingle(st2, value)
                 IN  [st |-> out.st,
                      ret |-> IF out.err = NoError THEN 2 ELSE 0,
                      err |-> out.err, called |-> TRUE]
            ELSE miss

\* update that puts the value back as it was when the insertion throws.
updateRestores(st, id, newKeyArg) ==
    LET value == get(st, id)
        miss == [st |-> st, ret |-> 0, err |-> NoError, called |-> FALSE]
    IN  IF value = NoRef THEN miss
        ELSE
        LET idx == firstIndex(st, st.heap[value])
        IN  IF idx >= 0 /\ idx < Len(st.array)
               /\ IdGetter(At(st, idx)) = id
            THEN LET oldKey == Key(st.heap[value])
                     st1 == [st EXCEPT !.heap[value].k = newKeyArg]
                     newKey == Key(st1.heap[value])
                     st2 == [st1 EXCEPT !.dict[id] = NoRef,
                                        !.array = SpliceOut(@, idx)]
                     out == insertSingle(st2, value)
                 IN  IF newKey # oldKey
                     THEN [st |-> IF out.err = NoError THEN out.st ELSE st,
                           ret |-> IF out.err = NoError THEN 2 ELSE 0,
                           err |-> out.err, called |-> TRUE]
                     ELSE [st |-> st1, ret |-> 1, err |-> NoError,
                           called |-> TRUE]
            ELSE miss

\* update(id, update): the callback sets the value's key to newKey (the key
\* it already has, when the callback leaves the key alone).  ret is the
\* returned status, 0 for undefined; called tells whether the callback ran.
update(st, id, newKeyArg) ==
    LET value == get(st, id)
        miss == [st |-> st, ret |-> 0, err |-> NoError, called |-> FALSE]
    IN  IF value = NoRef THEN miss
        ELSE
        LET idx == firstIndex(st, st.heap[value])
        IN  IF idx >= 0 /\ idx < Len(st.array)
               /\ IdGetter(At(st, idx)) = id
            THEN LET oldKey == Key(st.heap[value])
                     st1 == [st EXCEPT !.heap[value].k = newKeyArg]
                     newKey == Key(st1.heap[value])
                     st2 == [st1 EXCEPT !.dict[id] = NoRef,
                                        !.array = SpliceOut(@, idx)]
                     out == insertSingle(st2, value)
                 IN  IF newKey # oldKey
                     THEN [st |-> out.st,
                           ret |-> IF out.err = NoError THEN 2 ELSE 0,
                           err |-> out.err, called |-> TRUE]
                     ELSE [st |-> st1, ret |-> 1, err |-> NoError,
                           called |-> TRUE]
            ELSE miss

\* --------------------------------------------------------------- pagination
\* What key.key throws when it is given undefined.
KeyOfUndefined == "Cannot read properties of undefined"

\* A cursor is a key or null; keys below, between and above the members'.
NoCursor == -1
Cursors == {NoCursor} \cup (0..(MaxKey + 1))
MaxLimit == 2
Limits == 0..MaxLimit
Modes == {"after", "before"}
\* The optional predicate: omitted, or a test of the value.  It is called
\* with the value and the index the source passes, and looks at the value.
NoPredicate == [given |-> FALSE, keys |-> {}]
Predicates == {NoPredicate} \cup [given : {TRUE}, keys : SUBSET Keys]
Test(predicate, item, index) == Key(item) \in predicate.keys

\* Array.prototype.slice(start, end) for 0 <= start.
Min(a, b) == IF a < b THEN a ELSE b
Max(a, b) == IF a > b THEN a ELSE b
ArraySlice(a, start, end) == SubSeq(a, start + 1, Min(end, Len(a)))

\* The two loops of filtered: i is the index of the item at hand.
RECURSIVE filteredAfter(_, _, _, _, _, _)
filteredAfter(st, start, count, predicate, i, arr) ==
    IF i >= Len(st.array) THEN arr
    ELSE LET item == st.array[i + 1]
             arr1 == IF Test(predicate, st.heap[item], start + Len(arr))
                     THEN Append(arr, item) ELSE arr
         IN  IF Len(arr1) >= count THEN arr1
             ELSE filteredAfter(st, start, count, predicate, i + 1, arr1)

\* The 'before' loop with push in the place of unshift.
RECURSIVE filteredBeforePush(_, _, _, _, _, _)
filteredBeforePush(st, start, count, predicate, i, arr) ==
    IF i < 0 THEN arr
    ELSE LET item == st.array[i + 1]
             arr1 == IF Test(predicate, st.heap[item], start + Len(arr))
                     THEN Append(arr, item) ELSE arr
         IN  IF Len(arr1) >= count THEN arr1
             ELSE filteredBeforePush(st, start, count, predicate, i - 1, arr1)

RECURSIVE filteredBefore(_, _, _, _, _, _)
filteredBefore(st, start, count, predicate, i, arr) ==
    IF i < 0 THEN arr
    ELSE LET item == st.array[i + 1]
             arr1 == IF Test(predicate, st.heap[item], start + Len(arr))
                     THEN <<item>> \o arr ELSE arr
         IN  IF Len(arr1) >= count THEN arr1
             ELSE filteredBefore(st, start, count, predicate, i - 1, arr1)

\* filtered without the limit.
filteredAll(st, start, count, mode, predicate) ==
    LET n == Len(st.array)
    IN  IF mode = "after"
        THEN IF predicate.given
             THEN filteredAfter(st, start, n + 1, predicate, start, <<>>)
             ELSE ArraySlice(st.array, start, n)
        ELSE IF predicate.given
             THEN filteredBefore(st, start, n + 1, predicate, start - 1, <<>>)
             ELSE ArraySlice(st.array, 0, start)

\* filtered(start, count, mode, predicate): the references of the page.
filtered(st, start, count, mode, predicate) ==
    IF mode = "after"
    THEN IF predicate.given
         THEN filteredAfter(st, start, count, predicate, start, <<>>)
         ELSE ArraySlice(st.array, start, start + count)
    ELSE IF predicate.given
         THEN filteredBefore(st, start, count, predicate, start - 1, <<>>)
         ELSE ArraySlice(st.array, Max(start - count, 0), start)

\* paginated that keeps the element of the cursor's key in an 'after' page.
paginatedInclusive(st, cursor, limit, predicate, mode) ==
    IF cursor = NoCursor
    THEN [res |-> filtered(st, IF mode = "after" THEN 0 ELSE Len(st.array),
                           limit, mode, predicate),
          err |-> NoError]
    ELSE
    LET found == binarySearch([i \in 1..Len(st.array) |->
                     Compare(cursor, Key(st.heap[st.array[i]]))])
        index == IF found < 0 THEN 0 ELSE found
    IN  IF At(st, index) = NULL
        THEN [res |-> <<>>, err |-> KeyOfUndefined]
        ELSE [res |-> filtered(st, index, limit, mode, predicate),
              err |-> NoError]

\* paginated(cursor, limit, predicate, mode).
paginated(st, cursor, limit, predicate, mode) ==
    IF cursor = NoCursor
    THEN [res |-> filtered(st, IF mode = "after" THEN 0 ELSE Len(st.array),
                           limit, mode, predicate),
          err |-> NoError]
    ELSE
    LET found == binarySearch([i \in 1..Len(st.array) |->
                     Compare(cursor, Key(st.heap[st.array[i]]))])
        index == IF found < 0 THEN 0 ELSE found
    IN  IF At(st, index) = NULL
        THEN [res |-> <<>>, err |-> KeyOfUndefined]
        ELSE LET start == IF Key(At(st, index)) = cursor
                          THEN index + (IF mode = "after" THEN 1 ELSE 0)
                          ELSE index
             IN  [res |-> filtered(st, start, limit, mode, predicate),
                  err |-> NoError]

\* paginatedByValue(value, limit, predicate, mode): value && key(value).
paginatedByValue(st, value, limit, predicate, mode) ==
    paginated(st, IF value = NULL THEN NoCursor ELSE Key(value),
              limit, predicate, mode)

\* ---------------------------------------------------------------- iterating
\* An iterator that finishes one item early.
iteratorShort(st, i) ==
    IF i + 1 < Len(st.array)
    THEN [done |-> FALSE, value |-> st.array[i + 1], i |-> i + 1]
    ELSE [done |-> TRUE, value |-> NoRef, i |-> i]

\* One step of the generator [Symbol.iterator]: the array iterator of
\* `for (let item of this.array)` at index i yields the item there, or ends.
iterator(st, i) ==
    IF i < Len(st.array)
    THEN [done |-> FALSE, value |-> st.array[i + 1], i |-> i + 1]
    ELSE [done |-> TRUE, value |-> NoRef, i |-> i]

\* ---------------------------------------------------------------- deriving
\* The dictionary filter and slice fill: each item of the new array under
\* its identity, a later item taking the place of an earlier one.
Indexed(st, a) ==
    [id \in AllIds |->
        LET at == {i \in 1..Len(a) : IdGetter(st.heap[a[i]]) = id}
        IN  IF at = {} THEN NoRef
            ELSE a[CHOOSE i \in at : \A j \in at : j <= i]]

\* filter(predicate): the new collection's array and dictionary.
filter(st, predicate) ==
    LET kept == SelectSeq([i \in 1..Len(st.array) |-> i],
                    LAMBDA i : Test(predicate, st.heap[st.array[i]], i - 1))
        a == [j \in 1..Len(kept) |-> st.array[kept[j]]]
    IN  [array |-> a, dict |-> Indexed(st, a)]

\* Array.prototype.slice(start, end) with either argument omitted (range
\* is the list of the arguments given) or negative.
Positions == (-1)..MaxKey
Ranges == UNION {[1..n -> Positions] : n \in 0..2}
FromStart(n, k) == IF k < 0 THEN Max(n + k, 0) ELSE Min(k, n)
slice(st, range) ==
    LET n == Len(st.array)
        from == IF Len(range) >= 1 THEN FromStart(n, range[1]) ELSE 0
        to == IF Len(range) >= 2 THEN FromStart(n, range[2]) ELSE n
        a == SubSeq(st.array, from + 1, to)
    IN  [array |-> a, dict |-> Indexed(st, a)]

\* ----------------------------------------------------------------- actions
Empty == St(<<>>, [id \in AllIds |-> NoRef], [r \in Refs |-> NULL])
Now == St(array, dict, heap)

\* What the call in progress was given, the state it started from and what
\* it returned or threw; the caller reads it and drops it (Return) before
\* the next call, so last.op is "idle" between calls.  Two pairs of calls
\* are kept together: delete(v) right after insert(v) ("undo") and the
\* insert of an identity right after its deleteById ("reuse"); link names
\* the pair and origin is the state its first call started from.
Call(op, args, id, flag, newKey, res, ret, err, called, link) ==
    [op |-> op, args |-> args, id |-> id, flag |-> flag, newKey |-> newKey,
     pre |-> Now, res |-> res, ret |-> ret, err |-> err, called |-> called,
     link |-> link, origin |-> IF link = "none" THEN Empty ELSE last.pre]

Idle ==
    [op |-> "idle", args |-> <<>>, id |-> "", flag |-> "omitted", newKey |-> 0,
     pre |-> Empty, res |-> <<>>, ret |-> 0, err |-> NoError,
     called |-> FALSE, link |-> "none", origin |-> Empty]

\* A returned value as a list: empty for null and undefined.
Returned(v) == IF v = NULL THEN <<>> ELSE <<v>>

Become(st) ==
    LET c == Collect(st)
    IN  /\ array' = c.array
        /\ dict' = c.dict
        /\ heap' = c.heap
        /\ derived' = c.other

\* The tests' `data`: the values given to insert since the collection was
\* created or cleared, as long as they were new values with distinct keys
\* and distinct identities and nothing else was called; <<NULL>> afterwards.
Spoiled == <<NULL>>
Distinct(s) ==
    \A i, j \in 1..Len(s) :
        i # j => Key(s[i]) # Key(s[j]) /\ IdGetter(s[i]) # IdGetter(s[j])
Fed(values) ==
    IF data # Spoiled /\ (\A i \in 1..Len(values) : values[i] # NULL)
       /\ Distinct(data \o values)
    THEN data \o values
    ELSE Spoiled

\* A caller paging through the collection: the arguments of its first
\* call of paginated, the cursor and the page of its latest call, the pages
\* put together so far (appended in 'after' mode, prepended in 'before'
\* mode) and the number of calls.  Pages hold references.
NoWalk ==
    [mode |-> "none", limit |-> 0, predicate |-> NoPredicate,
     first |-> NoCursor, cursor |-> NoCursor, page |-> <<>>, all |-> <<>>,
     calls |-> 0, err |-> NoError]
MaxCalls == MaxKey + 2

\* A caller iterating the collection: the index of the array iterator, the
\* values yielded so far and whether the generator has finished.
\* runs counts the iterations the caller has started one after the other,
\* pre is the collection when the latest one started.
NoIter ==
    [on |-> FALSE, i |-> 0, out |-> <<>>, done |-> FALSE, runs |-> 0,
     pre |-> Empty]
MaxRuns == 2

\* The collection filter or slice has returned (none yet), or, once the
\* caller has turned to that one, the collection it was made from.
NoDb ==
    [made |-> FALSE, turned |-> FALSE, array |-> <<>>,
     dict |-> [id \in AllIds |-> NoRef]]

\* A call that leaves the readers alone, and one made while nobody is
\* reading: a walk and an iteration are about a collection that does not
\* change, and end (EndWalk, EndIter) before the next call changes it.
Quiet == UNCHANGED <<walk, iter, search>>
Alone == walk = NoWalk /\ iter = NoIter /\ Quiet

\* A call of binarySearch on its own, as the tests make: the sequence, the
\* target the probe compares each element with, and the index returned.
NoSearch == [seq |-> <<>>, target |-> 0, result |-> 0, done |-> FALSE,
             looping |-> FALSE, low |-> 0, high |-> 0, steps |-> 0]

Init ==
    /\ array = <<>>
    /\ dict = [id \in AllIds |-> NoRef]
    /\ heap = [r \in Refs |-> NULL]
    /\ idGetter \in {"default", "custom"}
    /\ last = Idle
    /\ data = <<>>
    /\ walk = NoWalk
    /\ iter = NoIter
    /\ derived = NoDb
    /\ search = NoSearch

\* The values of one call: up to MaxArgs of them, and one in a call made
\* while the caller holds a second collection.
CallArgs == IF derived.made THEN [1..1 -> Inputs] ELSE ArgLists

Insert ==
    \E values \in CallArgs :
        LET out == insert(Now, values)
            reuse == /\ last.op = "deleteById" /\ last.res # <<>>
                     /\ Len(values) = 1 /\ values[1] # NULL
                     /\ IdGetter(values[1]) = last.id
        IN  /\ last = Idle \/ reuse
            /\ Become(out.st)
            /\ last' = Call("insert", values, "", "omitted", 0, <<>>, 0, out.err,
                            FALSE, IF reuse THEN "reuse" ELSE "none")
            /\ data' = Fed(values)
            /\ UNCHANGED idGetter

Upsert ==
    \E values \in CallArgs :
        LET out == upsert(Now, values)
        IN  /\ last = Idle
            /\ Become(out.st)
            /\ last' = Call("upsert", values, "", "omitted", 0, out.res, 0,
                            out.err, FALSE, "none")
            /\ data' = Spoiled
            /\ UNCHANGED idGetter

InsertIfAbsent ==
    \E values \in CallArgs :
        LET out == insertIfAbsent(Now, values)
        IN  /\ last = Idle
            /\ Become(out.st)
            /\ last' = Call("insertIfAbsent", values, "", "omitted", 0, out.res, 0,
                            out.err, FALSE, "none")
            /\ data' = Spoiled
            /\ UNCHANGED idGetter

Delete ==
    \E value \in Values :
        LET out == delete(Now, value)
            undo == last.op = "insert" /\ last.args = <<value>>
        IN  /\ last = Idle \/ undo
            /\ Become(out.st)
            /\ last' = Call("delete", <<value>>, "", "omitted", 0,
                            Returned(out.res), 0, out.err, FALSE,
                            IF undo THEN "undo" ELSE "none")
            /\ data' = Spoiled
            /\ UNCHANGED idGetter

DeleteById ==
    \E id \in Ids, assertPresent \in Flags :
        LET out == deleteById(Now, id, OrTrue(assertPresent))
        IN  /\ last = Idle
            /\ Become(out.st)
            /\ last' = Call("deleteById", <<>>, id, assertPresent, 0,
                            Returned(out.res), 0, out.err, FALSE, "none")
            /\ data' = Spoiled
            /\ UNCHANGED idGetter

Update ==
    \E id \in Ids, newKey \in Keys :
        LET out == update(Now, id, newKey)
        IN  /\ last = Idle
            /\ Become(out.st)
            /\ last' = Call("update", <<>>, id, "omitted", newKey, <<>>, out.ret,
                            out.err, out.called, "none")
            /\ data' = Spoiled
            /\ UNCHANGED idGetter

Clear ==
    /\ last = Idle
    /\ Become(clear(Now))
    /\ last' = Call("clear", <<>>, "", "omitted", 0, <<>>, 0, NoError, FALSE, "none")
    /\ data' = <<>>
    /\ UNCHANGED idGetter

\* The caller has read what the call returned.
Return ==
    /\ last # Idle
    /\ last' = Idle
    /\ UNCHANGED <<array, dict, heap, idGetter, data, derived>>

Next ==
    \/ Insert /\ Quiet
    \/ Upsert /\ Quiet
    \/ InsertIfAbsent /\ Quiet
    \/ Delete /\ Quiet
    \/ DeleteById /\ Quiet
    \/ Update /\ Quiet
    \/ Clear /\ Quiet
    \/ Return /\ Quiet

Spec == Init /\ [][Next]_vars

\* ------------------------------------------------------------------ reading
Page(out, cursor, limit, predicate, mode) ==
    [mode |-> mode, limit |-> limit, predicate |-> predicate,
     first |-> cursor, cursor |-> cursor, page |-> out.res, all |-> out.res,
     calls |-> 1, err |-> out.err]

Paginated ==
    \E cursor \in Cursors, limit \in Limits, predicate \in Predicates,
       mode \in Modes :
        /\ last = Idle /\ walk = NoWalk /\ iter = NoIter
        /\ walk' = Page(paginated(Now, cursor, limit, predicate, mode),
                        cursor, limit, predicate, mode)
        /\ iter' = NoIter
        /\ UNCHANGED <<array, dict, heap, idGetter, last, data, derived, search>>

PaginatedByValue ==
    \E value \in Inputs, limit \in Limits, predicate \in Predicates,
       mode \in Modes :
        /\ last = Idle /\ walk = NoWalk /\ iter = NoIter
        /\ walk' = Page(paginatedByValue(Now, value, limit, predicate, mode),
                        IF value = NULL THEN NoCursor ELSE Key(value),
                        limit, predicate, mode)
        /\ iter' = NoIter
        /\ UNCHANGED <<array, dict, heap, idGetter, last, data, derived, search>>

\* The next call of a walk: the cursor is the key of the last item of the
\* page before in 'after' mode, of its first item in 'before' mode.
NextPage ==
    /\ walk.mode # "none" /\ walk.err = NoError /\ walk.page # <<>>
    /\ walk.calls < MaxCalls
    /\ LET cursor == IF walk.mode = "after"
                     THEN Key(heap[walk.page[Len(walk.page)]])
                     ELSE Key(heap[walk.page[1]])
           out == paginated(Now, cursor, walk.limit, walk.predicate, walk.mode)
       IN  walk' = [walk EXCEPT
                       !.cursor = cursor, !.page = out.res,
                       !.all = IF walk.mode = "after" THEN @ \o out.res
                               ELSE out.res \o @,
                       !.calls = @ + 1, !.err = out.err]
    /\ UNCHANGED <<array, dict, heap, idGetter, last, data, iter, derived, search>>

EndWalk ==
    /\ walk # NoWalk
    /\ walk' = NoWalk
    /\ UNCHANGED <<array, dict, heap, idGetter, last, data, iter, derived, search>>

\* for (let item of db): a new generator, and its steps.
Iterate ==
    /\ last = Idle /\ walk = NoWalk
    /\ iter.runs < MaxRuns
    /\ iter' = [on |-> TRUE, i |-> 0, out |-> <<>>, done |-> FALSE,
                runs |-> iter.runs + 1, pre |-> Now]
    /\ UNCHANGED <<array, dict, heap, idGetter, last, data, walk, derived, search>>

IterNext ==
    /\ iter.on /\ ~iter.done
    /\ LET step == iterator(Now, iter.i)
       IN  iter' = [iter EXCEPT
                       !.i = step.i, !.done = step.done,
                       !.out = IF step.done THEN @ ELSE Append(@, step.value)]
    /\ UNCHANGED <<array, dict, heap, idGetter, last, data, walk, derived, search>>

EndIter ==
    /\ iter.on
    /\ iter' = NoIter
    /\ UNCHANGED <<array, dict, heap, idGetter, last, data, walk, derived, search>>

PageNext ==
    \/ Alone /\ Insert
    \/ Alone /\ Upsert
    \/ Alone /\ InsertIfAbsent
    \/ Alone /\ Delete
    \/ Alone /\ DeleteById
    \/ Alone /\ Update
    \/ Alone /\ Clear
    \/ Alone /\ Return
    \/ Paginated
    \/ PaginatedByValue
    \/ NextPage
    \/ EndWalk
    \/ Iterate
    \/ IterNext
    \/ EndIter

PageSpec == Init /\ [][PageNext]_vars

\* ---------------------------------------------------------------- searching
\* Strictly ascending sequences of numbers up to MaxElement, and the arrays
\* and targets of the tests.
MaxElement == 6
RECURSIVE Ascending(_)
Ascending(S) ==
    IF S = {} THEN <<>>
    ELSE LET m == CHOOSE x \in S : \A y \in S : y <= x
         IN  Append(Ascending(S \ {m}), m)
TestArrays == {<<100>>, <<1, 2, 3, 4, 5, 10, 16, 91, 240>>}
TestTargets == {111, 90, 70, 700, -1}
Sequences == {Ascending(S) : S \in SUBSET (1..MaxElement)} \cup TestArrays
Targets == (0..(MaxElement + 1)) \cup TestTargets

\* The probe of the tests, item => value - item, over the sequence.
Probes(seq, target) == [i \in 1..Len(seq) |-> Compare(target, seq[i])]

SearchInit ==
    /\ array = <<>>
    /\ dict = [id \in AllIds |-> NoRef]
    /\ heap = [r \in Refs |-> NULL]
    /\ idGetter = "default"
    /\ last = Idle
    /\ data = <<>>
    /\ walk = NoWalk
    /\ iter = NoIter
    /\ derived = NoDb
    /\ search \in [seq : Sequences, target : Targets, result : {0},
                   done : {FALSE}, looping : {FALSE}, low : {0}, high : {0},
                   steps : {0}]

\* The whole call in one step.
Search ==
    /\ ~search.done /\ ~search.looping
    /\ search' = [search EXCEPT
                     !.result = binarySearch(Probes(search.seq, search.target)),
                     !.done = TRUE]
    /\ UNCHANGED <<array, dict, heap, idGetter, last, data, walk, iter, derived>>

\* The same call followed step by step: the edge handling, and then one
\* round of the loop at a time between the bounds low and high.
SearchStart ==
    /\ ~search.done /\ ~search.looping
    /\ LET p == Probes(search.seq, search.target)
           e == bsEdge(p)
       IN  search' = IF e.done
                     THEN [search EXCEPT !.result = e.result, !.done = TRUE]
                     ELSE [search EXCEPT !.looping = TRUE, !.low = 0,
                                         !.high = Len(p)]
    /\ UNCHANGED <<array, dict, heap, idGetter, last, data, walk, iter, derived>>

SearchStep ==
    /\ search.looping /\ ~search.done
    /\ search.steps <= Len(search.seq)
    /\ LET p == Probes(search.seq, search.target)
           s == bsStep(p, search.low, search.high)
       IN  search' =
               IF search.low = search.high
               THEN [search EXCEPT !.result = search.low, !.done = TRUE]
               ELSE [search EXCEPT !.result = s.result, !.done = s.done,
                                   !.low = s.low, !.high = s.high,
                                   !.steps = search.steps + 1]
    /\ UNCHANGED <<array, dict, heap, idGetter, last, data, walk, iter, derived>>

SearchNext ==
    \/ Search
    \/ SearchStart
    \/ SearchStep

SearchSpec == SearchInit /\ [][SearchNext]_vars

\* The scheduling of a call: a started search keeps running until it returns.
SearchFair == SearchSpec /\ WF_vars(SearchNext)

\* ----------------------------------------------------------------- derived
\* filter and slice as calls: what they were given is kept with the call.
Derive(op, predicate, range) ==
    ("predicate" :> predicate) @@ ("range" :> range) @@
    Call(op, <<>>, "", "omitted", 0, <<>>, 0, NoError, FALSE, "none")
Made(db) == [made |-> TRUE, turned |-> FALSE, array |-> db.array, dict |-> db.dict]

Filter ==
    \E predicate \in Predicates \ {NoPredicate} :
        /\ last = Idle /\ ~derived.made
        /\ derived' = Made(filter(Now, predicate))
        /\ last' = Derive("filter", predicate, <<>>)
        /\ data' = Spoiled
        /\ UNCHANGED <<array, dict, heap, idGetter, walk, iter, search>>

Slice ==
    \E range \in Ranges :
        /\ last = Idle /\ ~derived.made
        /\ derived' = Made(slice(Now, range))
        /\ last' = Derive("slice", NoPredicate, range)
        /\ data' = Spoiled
        /\ UNCHANGED <<array, dict, heap, idGetter, walk, iter, search>>

\* The caller turns to the collection filter or slice has returned: the
\* next calls are calls on that one, and the one it was made from is the
\* other collection.
Turn ==
    /\ last = Idle /\ derived.made /\ ~derived.turned
    /\ LET c == CollectPair(St(derived.array, derived.dict, heap),
                            [derived EXCEPT !.array = array, !.dict = dict,
                                            !.turned = TRUE])
       IN  /\ array' = c.array
           /\ dict' = c.dict
           /\ heap' = c.heap
           /\ derived' = c.other
    /\ data' = Spoiled
    /\ UNCHANGED <<idGetter, last, walk, iter, search>>

\* The pair is followed for one call (and the delete or insert that goes
\* with it): the caller then lets the other collection go.
Kept == ~derived.made \/ last.op \in {"filter", "slice"}
Leave ==
    /\ last # Idle /\ derived.made /\ last.op \notin {"filter", "slice"}
    /\ LET c == CollectPair(Now, NoDb)
       IN  /\ array' = c.array
           /\ dict' = c.dict
           /\ heap' = c.heap
           /\ derived' = NoDb
    /\ last' = Idle
    /\ UNCHANGED <<idGetter, data, walk, iter, search>>

DerivedNext ==
    \/ Insert /\ Quiet
    \/ Upsert /\ Quiet
    \/ InsertIfAbsent /\ Quiet
    \/ Delete /\ Quiet
    \/ DeleteById /\ Quiet
    \/ Update /\ Quiet
    \/ Clear /\ Quiet
    \/ Kept /\ Return /\ Quiet
    \/ Filter
    \/ Slice
    \/ Turn
    \/ Leave

DerivedSpec == Init /\ [][DerivedNext]_vars

\* -------------------------------------------------------------- properties
\* The Ordered Sequence and the Identity Index as values, and for each
\* identity the position in the array of the object the index holds
\* (0: none, or an object that is not in the array).
ArrayOf(st) == [i \in 1..Len(st.array) |-> st.heap[st.array[i]]]
DictOf(st) ==
    [id \in AllIds |->
        IF st.dict[id] = NoRef THEN NULL ELSE st.heap[st.dict[id]]]
PlaceOf(st) ==
    [id \in AllIds |->
        IF \E i \in 1..Len(st.array) : st.array[i] = st.dict[id]
        THEN CHOOSE i \in 1..Len(st.array) : st.array[i] = st.dict[id]
        ELSE 0]
Range(s) == {s[i] : i \in 1..Len(s)}
KeysOf(s) == {Key(s[i]) : i \in 1..Len(s)}
IdsOf(s) == {IdGetter(s[i]) : i \in 1..Len(s)}
Pre == last.pre

\* A sequence of values with distinct keys, sorted ascending by compare.
Sorted(s) ==
    [i \in 1..Len(s) |->
        CHOOSE v \in Range(s) :
            Cardinality({w \in Range(s) : Compare(Key(w), Key(v)) < 0}) = i - 1]

\* C1: after every public operation the Identity Index holds exactly one
\* entry per member of the Ordered Sequence and nothing else: members have
\* pairwise distinct identities, every member is stored under its identity,
\* and every entry of the index is a member.
IndexIsSequence(st) ==
    /\ \A i, j \in 1..Len(st.array) :
           i # j => IdGetter(ArrayOf(st)[i]) # IdGetter(ArrayOf(st)[j])
    /\ \A i \in 1..Len(st.array) :
           st.dict[IdGetter(ArrayOf(st)[i])] = st.array[i]
    /\ \A id \in AllIds :
           st.dict[id] # NoRef => \E i \in 1..Len(st.array) : st.array[i] = st.dict[id]
C1_IndexIsSequence == IndexIsSequence(Now)

\* C2: after every public operation, returned or failed, the Ordered
\* Sequence is strictly ascending by key under compare.
StrictlyAscending(s) ==
    \A i, j \in 1..Len(s) : i < j => Compare(Key(s[i]), Key(s[j])) < 0
C2_StrictlyAscending == StrictlyAscending(ArrayOf(Now))
\* A failed update has left two members behind.
C2_Witness ==
    /\ last.op = "update" /\ last.err # NoError
    /\ Len(array) >= 2

\* C3: values with pairwise distinct keys and identities inserted into an
\* empty collection, in any order and in calls of any size, leave exactly
\* the input sorted ascending by key.
C3_InsertsSorted == data # Spoiled => ArrayOf(Now) = Sorted(data)
\* Three values were given, the first two in descending order.
C3_Witness ==
    /\ data # Spoiled /\ Len(data) = 3 /\ last.op = "insert"
    /\ Key(data[1]) > Key(data[2])

SingleInsert ==
    last.op = "insert" /\ Len(last.args) = 1 /\ last.args[1] # NULL

\* C4, as claimed: inserting a value whose key equals the key of a member
\* fails with DuplicateKey whatever the two identities, and inserting a
\* value whose identity equals the identity of a member fails with
\* DuplicateIdentity whatever the two keys.
C4_DuplicateKeyOrIdentity ==
    SingleInsert =>
        LET v == last.args[1]
        IN  /\ Key(v) \in KeysOf(ArrayOf(Pre)) => last.err = DuplicateKey
            /\ IdGetter(v) \in IdsOf(ArrayOf(Pre))
                   => last.err = DuplicateIdentity

\* C4, amended: inserting a value whose identity is in the Identity Index
\* fails with DuplicateIdentity whatever the keys; inserting a value whose
\* key equals the key of a member fails with DuplicateKey when its identity
\* is not in the Identity Index.
C4_DuplicateErrors ==
    SingleInsert =>
        LET v == last.args[1]
        IN  /\ Pre.dict[IdGetter(v)] # NoRef => last.err = DuplicateIdentity
            /\ Pre.dict[IdGetter(v)] = NoRef /\ Key(v) \in KeysOf(ArrayOf(Pre))
                   => last.err = DuplicateKey
\* An insert has failed on the key of a member of another identity.
C4_Witness ==
    /\ SingleInsert /\ last.err = DuplicateKey
    /\ IdGetter(last.args[1]) \notin IdsOf(ArrayOf(Pre))

\* The place of the value of key k in a sequence of values.
Pos(s, k) == CHOOSE i \in 1..Len(s) : Key(s[i]) = k

\* st is pre with the new values `added` stored: the array is the old
\* members and the new values in ascending order, the index holds the new
\* values under their identities, each the very object the array holds, and
\* every other entry is as it was.
AfterAdding(st, pre, added) ==
    LET exp == Sorted(ArrayOf(pre) \o added)
    IN  /\ ArrayOf(st) = exp
        /\ \A id \in AllIds :
               IF id \in IdsOf(added)
               THEN /\ DictOf(st)[id] \in Range(added)
                    /\ IdGetter(DictOf(st)[id]) = id
                    /\ PlaceOf(st)[id] = Pos(exp, Key(DictOf(st)[id]))
               ELSE /\ DictOf(st)[id] = DictOf(pre)[id]
                    /\ PlaceOf(st)[id] =
                           IF PlaceOf(pre)[id] = 0 THEN 0
                           ELSE Pos(exp, Key(DictOf(pre)[id]))

\* values[i] cannot be inserted once values[1..i-1] have been: it is falsy,
\* or its identity or its key is taken.
Fails(pre, values, i) ==
    LET v == values[i]
        earlier == SubSeq(values, 1, i - 1)
    IN  \/ v = NULL
        \/ pre.dict[IdGetter(v)] # NoRef
        \/ IdGetter(v) \in IdsOf(earlier)
        \/ Key(v) \in KeysOf(ArrayOf(pre)) \cup KeysOf(earlier)
FirstFail(pre, values) ==
    IF \E i \in 1..Len(values) : Fails(pre, values, i)
    THEN CHOOSE i \in 1..Len(values) :
             Fails(pre, values, i) /\ \A j \in 1..(i - 1) : ~Fails(pre, values, j)
    ELSE Len(values) + 1

\* C5: insert(v1..vk) applies the values in argument order; when the i-th
\* fails the call throws and the state is the one reached by inserting
\* v1..v(i-1): those are members, the failing value and the later ones are
\* not.  A failing single-value insert leaves the state as it was.
C5_InsertStopsAtFirstFailure ==
    last.op = "insert" =>
        LET i == FirstFail(Pre, last.args)
        IN  /\ AfterAdding(Now, Pre, SubSeq(last.args, 1, i - 1))
            /\ (i <= Len(last.args)) <=> (last.err # NoError)
            /\ last.err \in {NoError, InvalidValue, DuplicateIdentity,
                              DuplicateKey}
            /\ Len(last.args) = 1 /\ last.err # NoError => Now = Pre
\* A two-value insert has stored its first value and thrown on the second.
C5_Witness ==
    /\ last.op = "insert" /\ Len(last.args) = 2 /\ last.err # NoError
    /\ Len(array) = Len(Pre.array) + 1

\* The value is new to the state: no member has its key, the index does not
\* hold its identity, no member has its identity.
NewTo(st, v) ==
    /\ Key(v) \notin KeysOf(ArrayOf(st))
    /\ st.dict[IdGetter(v)] = NoRef
    /\ IdGetter(v) \notin IdsOf(ArrayOf(st))

\* C6: from any reachable state, insert(v) of a value whose key and identity
\* are not present followed by delete(v) gives back the state before the
\* insert: the same sequence in the same order and the same index.
C6_InsertDeleteRestores ==
    last.op = "delete" /\ last.link = "undo"
    /\ NewTo(last.origin, last.args[1])
        => Now = last.origin
\* delete(v) has removed the value that the insert before it had added to
\* a collection that was not empty.
C6_Witness ==
    /\ last.op = "delete" /\ last.link = "undo"
    /\ NewTo(last.origin, last.args[1])
    /\ Len(last.origin.array) >= 1
    /\ Len(Pre.array) = Len(last.origin.array) + 1
    /\ last.res = last.args

\* The inputs of a call that completed whose identity was in the index, or
\* was that of an earlier input, when they were processed.
RECURSIVE Replacing(_, _, _)
Replacing(pre, values, i) ==
    IF i > Len(values) THEN <<>>
    ELSE LET v == values[i]
             earlier == SubSeq(values, 1, i - 1)
             present == v # NULL /\
                 (pre.dict[IdGetter(v)] # NoRef \/
                  \E j \in 1..(i - 1) :
                      earlier[j] # NULL /\ IdGetter(earlier[j]) = IdGetter(v))
         IN  (IF present THEN <<v>> ELSE <<>>) \o Replacing(pre, values, i + 1)

\* C7: upsert(v) of a value whose key no member of another identity holds:
\* afterwards v is the member stored under its identity at the place of
\* its key, no earlier member of that identity is left, whatever its key
\* was, and the other members are as they were.  upsert(v1..vk) returns
\* the inputs whose identity was present when they were processed.
C7_Upsert ==
    last.op = "upsert" =>
        LET v == last.args[1]
            id == IdGetter(v)
            Other(m) == IdGetter(m) # id
            exp == Sorted(SelectSeq(ArrayOf(Pre), Other) \o <<v>>)
        IN  /\ (Len(last.args) = 1 /\ v # NULL /\
                 \A m \in Range(ArrayOf(Pre)) : Key(m) = Key(v) => ~Other(m))
                => /\ last.err = NoError
                   /\ ArrayOf(Now) = exp
                   /\ DictOf(Now) = [DictOf(Pre) EXCEPT ![id] = v]
                   /\ PlaceOf(Now)[id] = Pos(exp, Key(v))
            /\ last.err = NoError
                => last.res = Replacing(Pre, last.args, 1)

\* The values insertIfAbsent has to insert: those that are not falsy and
\* whose identity is not in the index and whose key no member has, the
\* values inserted before them counted in.
RECURSIVE Missing(_, _, _, _)
Missing(pre, values, i, acc) ==
    IF i > Len(values) THEN acc
    ELSE LET v == values[i]
             taken == \/ v = NULL
                      \/ pre.dict[IdGetter(v)] # NoRef
                      \/ IdGetter(v) \in IdsOf(acc)
                      \/ Key(v) \in KeysOf(ArrayOf(pre)) \cup KeysOf(acc)
         IN  Missing(pre, values, i + 1, IF taken THEN acc ELSE Append(acc, v))

\* C8: insertIfAbsent(v1..vk) never throws a duplicate error; a value whose
\* identity or key is present when it is processed is skipped, every other
\* value is inserted at its sorted place, and the inserted values are
\* returned in argument order.
C8_InsertIfAbsent ==
    last.op = "insertIfAbsent" =>
        LET ins == Missing(Pre, last.args, 1, <<>>)
        IN  /\ last.err = NoError
            /\ last.res = ins
            /\ AfterAdding(Now, Pre, ins)
\* Of two values the first was skipped for its key alone and the second
\* inserted.
C8_Witness ==
    /\ last.op = "insertIfAbsent" /\ Len(last.args) = 2
    /\ last.args[1] # NULL /\ Pre.dict[IdGetter(last.args[1])] = NoRef
    /\ last.res = <<last.args[2]>>
    /\ Len(array) >= 2

\* id names a member: the index holds an object under id and the array
\* holds that object.
Names(st, id) == st.dict[id] # NoRef /\ PlaceOf(st)[id] # 0

\* C9: deleteById(id, assertPresent).  When id names a member, the member
\* leaves the array and the index and is returned, the other members keep
\* their order, and an insert of a value of that identity right after
\* succeeds.  When id is unknown the call throws NotFound if assertPresent
\* is true or omitted and returns nothing if it is false, the state being
\* unchanged either way.
C9_DeleteById ==
    /\ last.op = "deleteById" /\ Names(Pre, last.id) =>
           LET p == PlaceOf(Pre)[last.id]
               was == ArrayOf(Pre)
           IN  /\ last.err = NoError
               /\ last.res = <<DictOf(Pre)[last.id]>>
               /\ ArrayOf(Now) =
                      SubSeq(was, 1, p - 1) \o SubSeq(was, p + 1, Len(was))
               /\ DictOf(Now) = [DictOf(Pre) EXCEPT ![last.id] = NULL]
               /\ \A id \in AllIds \ {last.id} :
                      PlaceOf(Now)[id] =
                          IF PlaceOf(Pre)[id] > p THEN PlaceOf(Pre)[id] - 1
                          ELSE PlaceOf(Pre)[id]
    /\ last.op = "deleteById" /\ Pre.dict[last.id] = NoRef =>
           /\ Now = Pre
           /\ last.res = <<>>
           /\ last.err = IF last.flag = "false" THEN NoError ELSE NotFound
    /\ last.op = "insert" /\ last.link = "reuse"
       /\ Names(last.origin, IdGetter(last.args[1]))
       /\ Key(last.args[1]) \notin KeysOf(ArrayOf(Pre))
           => last.err = NoError
\* A value has been inserted under the identity deleteById had just freed
\* in a collection of two members or more.
C9_Witness ==
    /\ last.op = "insert" /\ last.link = "reuse"
    /\ Names(last.origin, IdGetter(last.args[1]))
    /\ Len(last.origin.array) >= 2
    /\ last.err = NoError

\* C10: a miss neither throws nor changes the state: delete(value) of a key
\* no member holds returns null, and update(id, mutate) of an unknown
\* identity (one the index does not hold, or one no member has) returns
\* nothing and does not call mutate.
C10_MissChangesNothing ==
    /\ last.op = "delete" /\ Key(last.args[1]) \notin KeysOf(ArrayOf(Pre)) =>
           last.res = <<>> /\ last.err = NoError /\ Now = Pre
    /\ last.op = "update"
       /\ (Pre.dict[last.id] = NoRef \/ last.id \notin IdsOf(ArrayOf(Pre))) =>
           last.ret = 0 /\ ~last.called /\ last.err = NoError /\ Now = Pre
\* delete has missed with a key that lies between the keys of two members.
C10_Witness ==
    /\ last.op = "delete" /\ last.res = <<>>
    /\ \E i, j \in 1..Len(array) :
           Key(ArrayOf(Now)[i]) < Key(last.args[1])
           /\ Key(last.args[1]) < Key(ArrayOf(Now)[j])

\* The sequence without its i-th element.
Without(s, i) == SubSeq(s, 1, i - 1) \o SubSeq(s, i + 1, Len(s))

\* update(id, mutate) is about the member the index holds under id, and
\* mutate gives it the key last.newKey.
UpdateOfMember == last.op = "update" /\ Names(Pre, last.id)
Moved == [DictOf(Pre)[last.id] EXCEPT !.k = last.newKey]

\* C11: update(id, mutate) where mutate changes the member's key to a key
\* no other member holds returns 2; the value sits at the place of its new
\* key, the other members keep their relative order, no member is added or
\* lost, and an index that covered exactly the members before the call
\* covers exactly the members after it.
C11_UpdateRepositions ==
    UpdateOfMember
    /\ last.newKey # Key(DictOf(Pre)[last.id])
    /\ last.newKey \notin KeysOf(ArrayOf(Pre))
        => LET p == PlaceOf(Pre)[last.id]
               others == Without(ArrayOf(Pre), p)
               exp == Sorted(others \o <<Moved>>)
               q == Pos(exp, last.newKey)
           IN  /\ last.ret = 2 /\ last.err = NoError /\ last.called
               /\ ArrayOf(Now) = exp
               /\ Without(ArrayOf(Now), q) = others
               /\ Len(array) = Len(Pre.array)
               /\ PlaceOf(Now)[IdGetter(Moved)] = q
               /\ DictOf(Now)[IdGetter(Moved)] = Moved
               /\ (IndexIsSequence(Pre) => IndexIsSequence(Now))
\* update has moved a member from one side of another member to the other.
C11_Witness ==
    /\ UpdateOfMember /\ last.ret = 2
    /\ \E i \in 1..Len(array) :
           /\ ArrayOf(Now)[i] # Moved
           /\ (Key(DictOf(Pre)[last.id]) < Key(ArrayOf(Now)[i]))
                  # (last.newKey < Key(ArrayOf(Now)[i]))

\* C12: update(id, mutate) where mutate leaves the member's key unchanged
\* returns 1 and leaves the sequence (members and places) and the index
\* exactly as they were.
C12_UpdateKeepsPlace ==
    UpdateOfMember /\ last.newKey = Key(DictOf(Pre)[last.id])
        => /\ last.ret = 1 /\ last.err = NoError /\ last.called
           /\ Now = Pre
\* update has left the key of a member of a collection of two or more alone.
C12_Witness ==
    /\ UpdateOfMember /\ last.ret = 1
    /\ last.newKey = Key(DictOf(Pre)[last.id])
    /\ Len(array) >= 2

\* ------------------------------------------------------- pagination claims
\* The members (references) that pass the predicate, in array order, and
\* those of them whose key is above or below a cursor.
Passes(predicate, r) == ~predicate.given \/ Key(heap[r]) \in predicate.keys
Matching(predicate) == SelectSeq(array, LAMBDA r : Passes(predicate, r))
Above(predicate, c) ==
    SelectSeq(array, LAMBDA r : Passes(predicate, r) /\ Key(heap[r]) > c)
Below(predicate, c) ==
    SelectSeq(array, LAMBDA r : Passes(predicate, r) /\ Key(heap[r]) < c)
FirstOf(s, n) == SubSeq(s, 1, Min(n, Len(s)))
LastOf(s, n) == SubSeq(s, Len(s) - Min(n, Len(s)) + 1, Len(s))
ValuesOf(refs) == [i \in 1..Len(refs) |-> heap[refs[i]]]

\* C13: a walk in 'after' mode that starts without a cursor, with a limit
\* of 1 or more and any predicate or none, each call's cursor being the key
\* of the last item of the page before: the pages put together are at every
\* call the matching members from the first on, in array order and each
\* once; every page holds limit members or all that are left, so the walk
\* ends with an empty page exactly when all of them have been visited,
\* after at most one call per matching member and one more.
C13_AfterWalkVisitsAll ==
    walk.mode = "after" /\ walk.first = NoCursor /\ walk.limit >= 1
        => LET m == Matching(walk.predicate)
           IN  /\ walk.err = NoError
               /\ walk.all = FirstOf(m, Len(walk.all))
               /\ Len(walk.page) =
                      Min(walk.limit, Len(m) - (Len(walk.all) - Len(walk.page)))
               /\ walk.page = <<>> => walk.all = m
               /\ walk.calls <= Len(m) + 1
\* A walk of three calls has ended: two pages of one member each, past a
\* member the predicate rejects, and an empty page.
C13_Witness ==
    /\ walk.mode = "after" /\ walk.first = NoCursor /\ walk.limit = 1
    /\ walk.predicate.given /\ Len(Matching(walk.predicate)) = 2
    /\ Len(array) = 3 /\ walk.page = <<>> /\ walk.calls = 3

\* The 'after' traversal as one value: the pages of the walk of C13 put
\* together, computed call by call.
RECURSIVE AfterTraversal(_, _, _, _)
AfterTraversal(cursor, limit, predicate, calls) ==
    LET out == paginated(Now, cursor, limit, predicate, "after").res
    IN  IF out = <<>> \/ calls = 0 THEN <<>>
        ELSE out \o AfterTraversal(Key(heap[out[Len(out)]]), limit,
                                   predicate, calls - 1)

\* C14: a walk in 'before' mode that starts without a cursor, with a limit
\* of 1 or more and any predicate or none, each call's cursor being the key
\* of the first item of the page before: every page is ascending by key,
\* the pages, each put in front of the ones before, are the matching
\* members from the last one back, and when the walk ends with an empty
\* page they are the sequence the 'after' traversal yields.
C14_BeforeWalkMirrors ==
    walk.mode = "before" /\ walk.first = NoCursor /\ walk.limit >= 1
        => LET m == Matching(walk.predicate)
           IN  /\ walk.err = NoError
               /\ StrictlyAscending(ValuesOf(walk.page))
               /\ walk.all = LastOf(m, Len(walk.all))
               /\ walk.calls <= Len(m) + 1
               /\ walk.page = <<>> =>
                      walk.all = AfterTraversal(NoCursor, walk.limit,
                                                walk.predicate, MaxCalls)
\* A 'before' walk with a predicate has ended after a page of two members
\* and a page of one.
C14_Witness ==
    /\ walk.mode = "before" /\ walk.first = NoCursor /\ walk.limit = 2
    /\ walk.predicate.given /\ Len(walk.all) = 3
    /\ walk.page = <<>> /\ walk.calls = 3

\* The cursor is the key of a member, lies between the keys of two members
\* or lies below the first key.
InRange(c) ==
    c # NoCursor /\ array # <<>> /\ c <= Key(heap[array[Len(array)]])

\* C15: for a cursor c that is the key of a member, lies between two member
\* keys or lies below the first key, a limit of 1 or more and any predicate
\* or none, paginated in 'after' mode returns the first limit matching
\* members of key greater than c, and in 'before' mode the last limit
\* matching members of key less than c, in array order; the member of key
\* c is not in the page.
C15_CursorIsExclusive ==
    walk.mode # "none" /\ InRange(walk.cursor) /\ walk.limit >= 1
        => /\ walk.err = NoError
           /\ walk.mode = "after" =>
                  walk.page = FirstOf(Above(walk.predicate, walk.cursor),
                                      walk.limit)
           /\ walk.mode = "before" =>
                  walk.page = LastOf(Below(walk.predicate, walk.cursor),
                                     walk.limit)
           /\ \A i \in 1..Len(walk.page) :
                  Key(heap[walk.page[i]]) # walk.cursor
\* The second call of an 'after' walk has returned the member that follows
\* the last item of the first page among the matching ones, a member the
\* predicate rejects lying between the two.
C15_Witness ==
    /\ walk.mode = "after" /\ walk.calls = 2 /\ walk.limit = 1
    /\ walk.predicate.given /\ Len(array) = 3
    /\ walk.page = <<array[3]>> /\ walk.cursor = Key(heap[array[1]])

\* C16: for every limit from 0 on, every cursor, both modes, with or without
\* a predicate, paginated returns at most limit elements, each a member that
\* satisfies the predicate, none twice.
C16_AtMostLimit ==
    walk.mode # "none"
        => /\ Len(walk.page) <= walk.limit
           /\ \A i \in 1..Len(walk.page) :
                  /\ \E j \in 1..Len(array) : array[j] = walk.page[i]
                  /\ Passes(walk.predicate, walk.page[i])
           /\ \A i, j \in 1..Len(walk.page) :
                  i # j => walk.page[i] # walk.page[j]

\* ---------------------------------------------------------- derived claims
\* The collection the caller is not calling, as a state.
Other == St(derived.array, derived.dict, heap)

\* C17: filter(predicate) returns a collection whose array is the source
\* members that satisfy the predicate, in source order; slice(start, end),
\* for positions from 0 on, one whose array is the source members at
\* positions start..end-1.  Either way the new index covers exactly the new
\* members, the new array is strictly ascending with distinct identities,
\* and the source is as it was.
C17_Derivation ==
    /\ last.op = "filter" => derived.array = Matching(last.predicate)
    /\ last.op = "slice" /\ Len(last.range) = 2
       /\ last.range[1] >= 0 /\ last.range[2] >= 0 =>
           derived.array = SubSeq(array, last.range[1] + 1,
                                  Min(last.range[2], Len(array)))
    /\ last.op \in {"filter", "slice"} =>
           /\ IndexIsSequence(Other)
           /\ StrictlyAscending(ArrayOf(Other))
           /\ Now = Pre

\* What a collection holds: the values of its array in order, the value
\* under each identity and the place of that object in the array.
View(st) == [array |-> ArrayOf(st), dict |-> DictOf(st), place |-> PlaceOf(st)]

\* C18: once filter or slice has made a second collection, a call of insert,
\* upsert, insertIfAbsent, delete, deleteById, update or clear on one of the
\* two leaves what the other holds as it was: its array, its index, and its
\* array ascending.
C18_DerivedIndependence ==
    [][derived.made /\ derived'.made /\ derived'.turned = derived.turned
           => /\ View(Other)' = View(Other)
              /\ StrictlyAscending(ArrayOf(Other))
                     => StrictlyAscending(ArrayOf(Other))']_vars

\* ---------------------------------------------------------- iteration claim
\* C19: while nothing changes the collection an iteration yields the array
\* from index 0 on, item by item, each member once and in ascending key
\* order, and finishes after the last one; an iteration started after
\* another starts from index 0 again; the collection stays as it was.
C19_Iteration ==
    iter.on
        => /\ iter.out = SubSeq(array, 1, iter.i)
           /\ iter.i <= Len(array)
           /\ iter.done => iter.i = Len(array) /\ iter.out = array
           /\ StrictlyAscending(ValuesOf(iter.out))
           /\ Now = iter.pre
\* The second iteration of a collection of three members has finished.
C19_Witness ==
    /\ iter.on /\ iter.done /\ iter.runs = 2
    /\ Len(iter.out) = 3

\* ------------------------------------------------------------- search claim
\* C20: for a strictly ascending sequence of length n and a target, with
\* probe(e) = compare(target, e), the search returns the index of the
\* element equal to the target when there is one; otherwise 0 for the empty
\* sequence, -1 when the target is smaller than every element, n when it is
\* larger than every element, and else the index of the first element
\* greater than the target: 7 for 70 in [1,2,3,4,5,10,16,91,240], 1 and -1
\* for 111 and 90 in [100].
C20_SearchResult ==
    search.done =>
        LET s == search.seq
            t == search.target
            n == Len(s)
            r == search.result
        IN  /\ IF \E i \in 1..n : s[i] = t
               THEN r >= 0 /\ r < n /\ s[r + 1] = t
               ELSE IF n = 0 THEN r = 0
               ELSE IF \A i \in 1..n : t < s[i] THEN r = -1
               ELSE IF \A i \in 1..n : t > s[i] THEN r = n
               ELSE /\ r >= 1 /\ r < n
                    /\ s[r + 1] > t
                    /\ \A i \in 1..r : s[i] < t
            /\ s = <<1, 2, 3, 4, 5, 10, 16, 91, 240>> /\ t = 70 => r = 7
            /\ s = <<100>> /\ t = 111 => r = 1
            /\ s = <<100>> /\ t = 90 => r = -1
\* The search has answered 7 for 70 in the array of the tests.
C20_Witness ==
    /\ search.done /\ search.seq = <<1, 2, 3, 4, 5, 10, 16, 91, 240>>
    /\ search.target = 70 /\ search.result = 7

\* ------------------------------------------------------------- last claims
\* C21: insert tests the identity before the key.  A value whose identity
\* the index holds fails with DuplicateIdentity and nothing is stored, also
\* when its key is the key of a member; under the default identity (the
\* key's string) a value of a member's key always collides on both and
\* fails with DuplicateIdentity, not DuplicateKey.
C21_IdentityBeforeKey ==
    SingleInsert =>
        LET v == last.args[1]
            known == Pre.dict[IdGetter(v)] # NoRef
            keyed == Key(v) \in KeysOf(ArrayOf(Pre))
        IN  /\ known => last.err = DuplicateIdentity /\ Now = Pre
            /\ known /\ keyed => last.err # DuplicateKey
            /\ idGetter = "default" /\ keyed
                   => known /\ last.err = DuplicateIdentity
\* Under the default identity an insert of the key of one of two members
\* has failed on the identity.
C21_Witness ==
    /\ SingleInsert /\ idGetter = "default"
    /\ Key(last.args[1]) \in KeysOf(ArrayOf(Pre))
    /\ last.err = DuplicateIdentity /\ Len(Pre.array) >= 2

\* C22: paginated returns normally for a cursor outside the populated
\* range.  For a cursor greater than every member's key, and for any cursor
\* on an empty collection, 'after' mode returns an empty page and 'before'
\* mode the last limit matching members; no key is read at or beyond the
\* end of the array, so nothing is thrown.
C22_CursorBeyondRange ==
    walk.mode # "none" /\ walk.cursor # NoCursor /\ walk.limit >= 1
    /\ (array = <<>> \/ walk.cursor > Key(heap[array[Len(array)]]))
        => /\ walk.err = NoError
           /\ walk.mode = "after" => walk.page = <<>>
           /\ walk.mode = "before" =>
                  walk.page = LastOf(Matching(walk.predicate), walk.limit)

\* C23: Ordered Search terminates.  After the edge handling every round of
\* the loop either returns (the midpoint, or the bound when the bounds have
\* met) or keeps the bounds ordered within 0..n and strictly shrinks the
\* interval between them; the loop runs for at most n rounds, every search
\* returns, and the value returned lies in -1..n.
C23_SearchTerminates ==
    /\ [][search.looping /\ ~search.done
             => \/ search'.done
                \/ /\ search.low <= search'.low
                   /\ search'.low <= search'.high
                   /\ search'.high <= search.high
                   /\ search'.high - search'.low < search.high - search.low]_vars
    /\ [](search.looping => /\ 0 <= search.low /\ search.low <= search.high
                            /\ search.high <= Len(search.seq)
                            /\ search.steps <= Len(search.seq))
    /\ [](search.done => search.result \in -1..Len(search.seq))
    /\ <>search.done
\* The loop has run for three rounds or more and ended with its bounds met.
C23_Witness ==
    /\ search.done /\ search.looping
    /\ search.steps >= 3
    /\ search.low = search.high /\ search.result = search.low

\* update(id, mutate) gives the member under id the key of another member.
UpdateClash ==
    /\ UpdateOfMember
    /\ last.newKey # Key(DictOf(Pre)[last.id])
    /\ last.newKey \in KeysOf(Without(ArrayOf(Pre), PlaceOf(Pre)[last.id]))
\* upsert(v, ...) where a member has v's identity and a member of another
\* identity has v's key.
UpsertClash ==
    /\ last.op = "upsert" /\ last.args[1] # NULL
    /\ Names(Pre, IdGetter(last.args[1]))
    /\ \E m \in Range(ArrayOf(Pre)) :
           Key(m) = Key(last.args[1]) /\ IdGetter(m) # IdGetter(last.args[1])
\* The member the index held under id has left the sequence and the index,
\* nothing has come in its place, and the other members are as they were.
Lost(id) ==
    /\ ArrayOf(Now) = Without(ArrayOf(Pre), PlaceOf(Pre)[id])
    /\ DictOf(Now) = [DictOf(Pre) EXCEPT ![id] = NULL]
    /\ PlaceOf(Now)[id] = 0
    /\ StrictlyAscending(ArrayOf(Now))
    /\ (IndexIsSequence(Pre) => IndexIsSequence(Now))

\* C24 as stated: an update that changes the member's key to the key of
\* another member, and an upsert of a value whose identity a member has and
\* whose key a member of another identity has, fail with the duplicate-key
\* error, and after the call the member of that identity is lost while the
\* others, sortedness and index consistency are as before.
C24_MemberLoss ==
    /\ UpdateClash => last.err = DuplicateKey /\ Lost(last.id)
    /\ UpsertClash => last.err = DuplicateKey /\ Lost(IdGetter(last.args[1]))

\* C24 amended: the same calls fail with a duplicate error, which is the
\* duplicate-key error under a caller's identity function and the
\* duplicate-identity error of update under the default one (the new key
\* is then the identity of the member that holds it); the member is lost
\* all the same.
C24_MemberLossEitherError ==
    /\ UpdateClash =>
           /\ last.err = IF idGetter = "default" THEN DuplicateIdentity
                         ELSE DuplicateKey
           /\ last.ret = 0 /\ last.called
           /\ Lost(last.id)
    /\ UpsertClash =>
           /\ idGetter = "custom"
           /\ last.err = DuplicateKey /\ last.res = <<>>
           /\ Lost(IdGetter(last.args[1]))
\* update has failed under the default identity function on a collection of
\* three members, and the collection is left with two.
C24_Witness ==
    /\ UpdateClash /\ idGetter = "default"
    /\ last.err = DuplicateIdentity
    /\ Len(Pre.array) = 3 /\ Len(array) = 2
====
